---- MODULE Spec2Model ----
(***************************************************************************)
(* AeroPulse backend: the WebSocket connection registry                    *)
(* (app/api/websocket.py, ConnectionManager), the per-car telemetry        *)
(* stream handler and the model serving / training endpoints               *)
(* (app/api/routes.py, app/ml/grip_model.py).                              *)
(*                                                                         *)
(* Scheduling is asyncio's: a coroutine runs without interruption from one *)
(* await to the next, so every action below is the code between two        *)
(* suspension points.                                                      *)
(***************************************************************************)
EXTENDS Integers, Sequences, FiniteSets, TLC

\* ------------------------------------------------------------------ bounds
\* longest connection list kept under one car number
MaxConn == 2

\* WebSocket objects, car numbers, broadcast payloads
Handles == {"A", "B"}
Keys == {7, 9}
Messages == {"msg"}

\* train_model calls that get as far as creating a GripLossModel
MaxTrain == 2

VARIABLES
    active_connections,   \* ConnectionManager.active_connections (insertion-ordered dict)
    task,                 \* the coroutine running broadcast_to_car / broadcast_all
    server,               \* "boot" before the lifespan startup has run, then "up"
    routes_model,         \* app.api.routes.model
    routes_explainer,     \* app.api.routes.explainer
    ws_model,             \* the name model of app.api.websocket
    ws_explainer,         \* the name explainer of app.api.websocket
    disk,                 \* model.pkl, scaler.pkl, features.pkl under MODEL_PATH
    trainings,            \* train_model calls that created a GripLossModel so far
    fit_done,             \* a load or a training run has completed successfully
    stream,               \* the websocket_telemetry handler of each WebSocket
    exchange,             \* the telemetry event a handler has finished with in the last step
    train_result,         \* the train_model call of the last step
    http,                 \* the answer of the predict_grip call of the last step
    gm,                   \* a GripLossModel object in the hands of a caller of the class
    call,                 \* the call of the last step on gm
    telemetry,            \* a TelemetryInput
    columns,              \* the raw columns of the training DataFrame
    verdict,              \* the classify_threat call of the last step
    vector,               \* the training / inference feature transform of the last step
    cast                  \* the websocket_broadcast handler and its broadcast_all call

hub_vars == <<active_connections, task>>
app_vars == <<server, routes_model, routes_explainer, ws_model, ws_explainer, disk,
              trainings, fit_done, stream, exchange, train_result, http>>
obj_vars == <<gm, call>>
pure_vars == <<telemetry, columns, verdict, vector>>
vars == <<active_connections, task, server, routes_model, routes_explainer, ws_model,
          ws_explainer, disk, trainings, fit_done, stream, exchange, train_result, http,
          gm, call, telemetry, columns, verdict, vector, cast>>

\* ------------------------------------------------------- Python containers
Range(s) == {s[i] : i \in 1..Len(s)}

Count(s, x) == Cardinality({i \in 1..Len(s) : s[i] = x})

\* list.remove(x): drops the first occurrence
list_remove(s, x) ==
    LET i == CHOOSE j \in 1..Len(s) : s[j] = x /\ \A m \in 1..(j - 1) : s[m] # x
    IN  SubSeq(s, 1, i - 1) \o SubSeq(s, i + 1, Len(s))

\* a dict is a sequence of entries in insertion order
dict_has(d, k) == \E i \in 1..Len(d) : d[i].car = k

dict_get(d, k) == d[CHOOSE i \in 1..Len(d) : d[i].car = k].conns

dict_set(d, k, v) ==
    IF dict_has(d, k)
    THEN [i \in 1..Len(d) |-> IF d[i].car = k THEN [car |-> k, conns |-> v] ELSE d[i]]
    ELSE Append(d, [car |-> k, conns |-> v])

dict_del(d, k) == SelectSeq(d, LAMBDA e : e.car # k)

dict_keys(d) == [i \in 1..Len(d) |-> d[i].car]

\* the list a reader finds under k ([] when there is none)
conns_of(d, k) == IF dict_has(d, k) THEN dict_get(d, k) ELSE <<>>

\* ------------------------------------------------------ ConnectionManager
\* connect, after websocket.accept() has returned
connect(d, websocket, car_number) ==
    LET d1 == IF ~dict_has(d, car_number) THEN dict_set(d, car_number, <<>>) ELSE d
    IN  dict_set(d1, car_number, Append(dict_get(d1, car_number), websocket))

\* disconnect without the "clean up empty lists" step
disconnect_keeps_empty(d, websocket, car_number) ==
    IF dict_has(d, car_number)
    THEN LET l  == dict_get(d, car_number)
             l1 == IF websocket \in Range(l) THEN list_remove(l, websocket) ELSE l
         IN  dict_set(d, car_number, l1)
    ELSE d

disconnect(d, websocket, car_number) ==
    IF dict_has(d, car_number)
    THEN LET l  == dict_get(d, car_number)
             l1 == IF websocket \in Range(l) THEN list_remove(l, websocket) ELSE l
             d1 == dict_set(d, car_number, l1)
         IN  IF l1 = <<>> THEN dict_del(d1, car_number) ELSE d1
    ELSE d

\* "for connection in disconnected: self.disconnect(connection, car_number)"
RECURSIVE cleanup(_, _, _)
cleanup(d, disconnected, car_number) ==
    IF disconnected = <<>> THEN d
    ELSE cleanup(disconnect(d, Head(disconnected), car_number),
                 Tail(disconnected), car_number)

\* ------------------------------------------------- broadcast coroutine
\* summary of the broadcast_to_car call the task has returned from in the last step
NoRet ==
    [returned |-> FALSE, car |-> 0, attempted |-> <<>>, failed |-> <<>>,
     always |-> {}, registered |-> {}, quiet |-> TRUE, raised |-> FALSE]

\* the task while it is in no call
IdleTask ==
    [pc |-> "idle", kind |-> "car", message |-> "msg", keys |-> <<>>, ki |-> 0,
     idx |-> 0, detached |-> FALSE, cur |-> "none", disconnected |-> <<>>,
     attempted |-> <<>>, nret |-> 0, always |-> {}, quiet |-> TRUE, ret |-> NoRet]

\* car number the task's broadcast_to_car call is about
car_of(tr) == tr.keys[tr.ki]

\* the list object the for loop of broadcast_to_car iterates: the live list of
\* the dict, or the emptied list that disconnect deleted from the dict
iter_list(tr, d) == IF tr.detached THEN <<>> ELSE conns_of(d, car_of(tr))

\* return of broadcast_to_car(car_number) on a car number with no entry
ret_absent(car_number) == [NoRet EXCEPT !.returned = TRUE, !.car = car_number]

\* return of broadcast_to_car, d1 the dict after the disconnected clients are
\* cleaned up
ret_of(tr, d1) ==
    [returned |-> TRUE, car |-> car_of(tr), attempted |-> tr.attempted,
     failed |-> tr.disconnected, always |-> tr.always,
     registered |-> Range(conns_of(d1, car_of(tr))),
     quiet |-> tr.quiet, raised |-> FALSE]

RECURSIVE next_call(_, _, _)
\* broadcast_all with "for car_number in self.active_connections": the dict
\* iterator raises RuntimeError once the dict has changed size
next_call_live(tr, d, i) ==
    IF tr.kind = "all" /\ Len(d) # Len(tr.keys)
    THEN [IdleTask EXCEPT !.ret = [tr.ret EXCEPT !.raised = TRUE]]
    ELSE IF i > Len(tr.keys)
    THEN [IdleTask EXCEPT !.ret = tr.ret]
    ELSE IF dict_has(d, tr.keys[i])
    THEN LET l == dict_get(d, tr.keys[i])
         IN  [tr EXCEPT !.pc = "send", !.ki = i, !.idx = 1, !.detached = FALSE,
                        !.cur = l[1], !.disconnected = <<>>,
                        !.attempted = <<l[1]>>,
                        !.always = Range(l), !.quiet = TRUE]
    ELSE next_call([tr EXCEPT !.ret = ret_absent(tr.keys[i])], d, i + 1)

\* entry of broadcast_to_car(keys[i]) up to its first send_json, for the
\* car numbers keys[i], keys[i+1], ... in turn; idle again when none is left
next_call(tr, d, i) ==
    IF i > Len(tr.keys)
    THEN [IdleTask EXCEPT !.ret = tr.ret]
    ELSE IF dict_has(d, tr.keys[i])
    THEN LET l == dict_get(d, tr.keys[i])
         IN  [tr EXCEPT !.pc = "send", !.ki = i, !.idx = 1, !.detached = FALSE,
                        !.cur = l[1], !.disconnected = <<>>,
                        !.attempted = <<l[1]>>,
                        !.always = Range(l), !.quiet = TRUE]
    ELSE next_call([tr EXCEPT !.ret = ret_absent(tr.keys[i])], d, i + 1)

\* the for loop without its try/except: a send_json that raises ends the call
resume_uncaught(tr, d, ok) ==
    LET tr1 == [tr EXCEPT !.nret = @ + 1, !.ret = NoRet]
        l   == iter_list(tr1, d)
    IN  IF ~ok
        THEN <<[IdleTask EXCEPT !.ret = [ret_of(tr1, d) EXCEPT !.raised = TRUE]], d>>
        ELSE IF tr1.idx < Len(l)
        THEN <<[tr1 EXCEPT !.idx = @ + 1, !.cur = l[tr1.idx + 1],
                           !.attempted = Append(@, l[tr1.idx + 1])], d>>
        ELSE <<next_call([tr1 EXCEPT !.ret = ret_of(tr1, d)], d, tr1.ki + 1), d>>

\* the for loop of broadcast_to_car after a send_json has returned or raised,
\* run up to the next send_json: <<task record, dict>>
resume(tr, d, ok) ==
    LET tr1 == [tr EXCEPT !.nret = @ + 1, !.ret = NoRet,
                          !.disconnected = IF ok THEN @ ELSE Append(@, tr.cur)]
        l   == iter_list(tr1, d)
    IN  IF tr1.idx < Len(l)
        THEN <<[tr1 EXCEPT !.idx = @ + 1, !.cur = l[tr1.idx + 1],
                           !.attempted = Append(@, l[tr1.idx + 1])], d>>
        ELSE LET d1 == cleanup(d, tr1.disconnected, car_of(tr1))
             IN  <<next_call([tr1 EXCEPT !.ret = ret_of(tr1, d1)], d1, tr1.ki + 1), d1>>

\* what a suspended broadcast_to_car sees of a change of the dict made by
\* another coroutine
observe(tr, d, dn) ==
    IF tr.pc # "send" THEN [tr EXCEPT !.ret = NoRet]
    ELSE [tr EXCEPT !.ret = NoRet,
                    !.detached = @ \/ ~dict_has(dn, car_of(tr)),
                    !.always = @ \cap Range(conns_of(dn, car_of(tr))),
                    !.quiet = @ /\ conns_of(dn, car_of(tr)) = conns_of(d, car_of(tr))]

\* ------------------------------------------------- model and explainer
\* None, as the value of a name that holds a GripLossModel
NoModel ==
    [exists |-> FALSE, model |-> 0, scaler |-> 0, feature_names |-> 0,
     is_trained |-> FALSE]

\* GripLossModel(): regressor, scaler and feature names are tagged with the
\* number of the training run that made them, 0 for None / []
GripLossModel ==
    [exists |-> TRUE, model |-> 0, scaler |-> 0, feature_names |-> 0,
     is_trained |-> FALSE]

NoExplainer == [exists |-> FALSE, model |-> 0, ready |-> FALSE]

\* GripExplainer(model): _initialize_explainer catches a failing TreeExplainer
\* and leaves self.explainer None (~ready)
GripExplainer(regressor, ready) == [exists |-> TRUE, model |-> regressor, ready |-> ready]

\* the three blobs under MODEL_PATH, 0 for a missing file
NoDisk == [model |-> 0, scaler |-> 0, features |-> 0]

\* GripLossModel.save, stopped by an exception at fail_at
save(m, dk, fail_at) ==
    CASE fail_at = "save_model"    -> dk
      [] fail_at = "save_scaler"   -> [dk EXCEPT !.model = m.model]
      [] fail_at = "save_features" -> [dk EXCEPT !.model = m.model, !.scaler = m.scaler]
      [] OTHER -> [model |-> m.model, scaler |-> m.scaler, features |-> m.feature_names]

\* GripLossModel.train as run number n, stopped by an exception at fail_at:
\* <<the model object, the disk>>
train(m, n, fail_at, dk) ==
    LET m1 == [m EXCEPT !.feature_names = n]
        m2 == [m1 EXCEPT !.scaler = n]
        m3 == [m2 EXCEPT !.model = n]
        m4 == [m3 EXCEPT !.is_trained = TRUE]
    IN  CASE fail_at = "split" -> <<m1, dk>>
          [] fail_at = "scale" -> <<m2, dk>>
          [] fail_at \in {"fit", "evaluate"} -> <<m3, dk>>
          [] OTHER -> <<m4, save(m4, dk, fail_at)>>

\* GripLossModel.load: <<the model object, "ok" or the exception raised>>
load(m, dk) ==
    IF dk.model = 0 THEN <<m, "FileNotFoundError">>
    ELSE IF dk.scaler = 0
    THEN <<[m EXCEPT !.model = dk.model], "FileNotFoundError">>
    ELSE IF dk.features = 0
    THEN <<[m EXCEPT !.model = dk.model, !.scaler = dk.scaler], "FileNotFoundError">>
    ELSE <<[m EXCEPT !.model = dk.model, !.scaler = dk.scaler,
                     !.feature_names = dk.features, !.is_trained = TRUE], "ok">>

\* initialize_model: <<model, explainer, loaded>>
initialize_model(dk, ready) ==
    LET r == load(GripLossModel, dk)
    IN  IF r[2] = "ok"
        THEN <<r[1], GripExplainer(r[1].model, ready), TRUE>>
        ELSE <<GripLossModel, NoExplainer, FALSE>>

\* where a train_model call can raise, in the order of its steps
FailPoints ==
    {"data", "features", "split", "scale", "fit", "evaluate",
     "save_model", "save_scaler", "save_features", "none"}

NoTrain == [status |-> "none", fail_at |-> "none", before |-> NoModel,
            before_explainer |-> NoExplainer]

\* train_model with "model = GripLossModel()" moved to the top of its try block
train_model_rebinds_first(m, e, dk, n, fail_at, ready) ==
    IF fail_at \in {"data", "features"} THEN <<GripLossModel, e, dk>>
    ELSE LET r == train(GripLossModel, n, fail_at, dk)
         IN  <<r[1], IF fail_at = "none" THEN GripExplainer(r[1].model, ready) ELSE e,
               r[2]>>

\* the try block of train_model, stopped by an exception at fail_at, as
\* training run number n: <<routes.model, routes.explainer, the disk>>
train_model(m, e, dk, n, fail_at, ready) ==
    IF fail_at \in {"data", "features"} THEN <<m, e, dk>>
    ELSE LET r == train(GripLossModel, n, fail_at, dk)
         IN  <<r[1], IF fail_at = "none" THEN GripExplainer(r[1].model, ready) ELSE e,
               r[2]>>

\* GripLossModel.predict: what it returns or raises
predict(m, predict_ok) ==
    IF ~m.is_trained THEN "ValueError"
    ELSE IF ~predict_ok THEN "Exception"
    ELSE "prediction"

\* GripExplainer.explain_prediction with the exceptions of the SHAP computation
\* left uncaught
explain_prediction_raises(e, explain_ok) ==
    IF ~e.ready THEN "empty"
    ELSE IF ~explain_ok THEN "raise"
    ELSE "attributions"

\* GripExplainer.explain_prediction: [] when self.explainer is None or the SHAP
\* computation raises (~explain_ok), the top contributions otherwise
explain_prediction(e, explain_ok) ==
    IF ~e.ready THEN "empty"
    ELSE IF ~explain_ok THEN "empty"
    ELSE "attributions"

NoHttp == [code |-> "none", prediction |-> 0, shap |-> "none",
           predict_ok |-> FALSE, explain_ok |-> FALSE]

\* predict_grip: the status of the answer, the regressor that made the
\* prediction of a 200 answer, and its shap_values
predict_grip(m, e, predict_ok, explain_ok) ==
    LET shap == IF e.exists THEN explain_prediction(e, explain_ok) ELSE "empty"
        r    == [NoHttp EXCEPT !.predict_ok = predict_ok, !.explain_ok = explain_ok]
    IN  IF ~m.exists \/ ~m.is_trained THEN [r EXCEPT !.code = "503"]
        ELSE IF predict(m, predict_ok) # "prediction" \/ shap = "raise"
        THEN [r EXCEPT !.code = "500"]
        ELSE [r EXCEPT !.code = "200", !.prediction = m.model, !.shap = shap]

\* where GripLossModel.train can raise
TrainFailPoints == FailPoints \ {"data", "features"}

NoCall == [op |-> "none", outcome |-> "none", before |-> NoModel]

\* -------------------------------------------- telemetry and features
\* seconds, mph, degrees and percent are counted in tenths
DIRTY_AIR_GAP_THRESHOLD == 15
DIRTY_AIR_SPEED_THRESHOLD == 1750
TIRE_FADE_SECTOR_DIFF_THRESHOLD == 3
WEATHER_SHIFT_GRIP_THRESHOLD == 30

\* the example record of TelemetryInput
Example ==
    [lap_number |-> 15, sector_1_time |-> 285, sector_2_time |-> 321,
     sector_3_time |-> 298, top_speed |-> 1825, gap_to_previous |-> 23,
     air_temperature |-> 250, wind_speed |-> 85]

\* records on both sides of the gap and speed thresholds, with sector 1 and
\* sector 3 times 0.0, 0.2, 1.3 and 1.5 s apart
TelemetryInputs ==
    [lap_number : {15}, sector_1_time : {285, 300}, sector_2_time : {321},
     sector_3_time : {298, 300}, top_speed : {1700, 1750, 1825},
     gap_to_previous : {10, 15, 23}, air_temperature : {250}, wind_speed : {85}]

\* predicted grip loss below, at and above the weather-shift threshold
GripLosses == {12, 30, 45}

abs(x) == IF x < 0 THEN -x ELSE x

\* classify_threat with the tire-fade rule tried first
classify_threat_fade_first(t, grip_loss) ==
    IF abs(t.sector_1_time - t.sector_3_time) > TIRE_FADE_SECTOR_DIFF_THRESHOLD
    THEN "tire_fade"
    ELSE IF /\ t.gap_to_previous < DIRTY_AIR_GAP_THRESHOLD
            /\ t.top_speed < DIRTY_AIR_SPEED_THRESHOLD
    THEN "dirty_air"
    ELSE IF grip_loss > WEATHER_SHIFT_GRIP_THRESHOLD THEN "weather_shift"
    ELSE "none"

\* classify_threat with the sector difference taken without abs
classify_threat_signed(t, grip_loss) ==
    IF /\ t.gap_to_previous < DIRTY_AIR_GAP_THRESHOLD
       /\ t.top_speed < DIRTY_AIR_SPEED_THRESHOLD
    THEN "dirty_air"
    ELSE IF t.sector_1_time - t.sector_3_time > TIRE_FADE_SECTOR_DIFF_THRESHOLD
    THEN "tire_fade"
    ELSE IF grip_loss > WEATHER_SHIFT_GRIP_THRESHOLD THEN "weather_shift"
    ELSE "none"

\* GripLossModel.classify_threat
classify_threat(t, grip_loss) ==
    IF /\ t.gap_to_previous < DIRTY_AIR_GAP_THRESHOLD
       /\ t.top_speed < DIRTY_AIR_SPEED_THRESHOLD
    THEN "dirty_air"
    ELSE IF abs(t.sector_1_time - t.sector_3_time) > TIRE_FADE_SECTOR_DIFF_THRESHOLD
    THEN "tire_fade"
    ELSE IF grip_loss > WEATHER_SHIFT_GRIP_THRESHOLD THEN "weather_shift"
    ELSE "none"

NoVerdict == [called |-> FALSE, grip_loss |-> 0, threat |-> "unset"]

\* feature_cols of create_feature_matrix
feature_cols ==
    <<"s1_delta", "s2_delta", "s3_delta", "speed_drop", "gap_normalized",
      "temp_delta", "wind_delta", "lap_in_stint", "total_sector_time">>

\* the raw columns whose presence decides which feature columns exist; the
\* gap, weather and stint columns are always made
RawColumns == {"SECTOR_1", "SECTOR_2", "SECTOR_3", "TOP_SPEED"}

\* the feature columns of the DataFrame after the calculate_* steps
df_columns(cols) ==
    {"gap_normalized", "temp_delta", "wind_delta", "lap_in_stint"}
    \cup (IF "SECTOR_1" \in cols THEN {"s1_delta"} ELSE {})
    \cup (IF "SECTOR_2" \in cols THEN {"s2_delta"} ELSE {})
    \cup (IF "SECTOR_3" \in cols THEN {"s3_delta"} ELSE {})
    \cup (IF {"SECTOR_1", "SECTOR_2", "SECTOR_3"} \subseteq cols
          THEN {"total_sector_time"} ELSE {})
    \cup (IF "TOP_SPEED" \in cols THEN {"speed_drop"} ELSE {})

\* available_features of create_feature_matrix: the feature names train stores
available_features(cols) == SelectSeq(feature_cols, LAMBDA c : c \in df_columns(cols))

\* _telemetry_to_features: the fixed list of nine values cut to the number of
\* stored feature names (speed_drop is kept as 180.0 - top_speed, undivided)
telemetry_to_features(t, feature_names) ==
    LET features ==
          <<[feature |-> "s1_delta", value |-> t.sector_1_time - 280],
            [feature |-> "s2_delta", value |-> t.sector_2_time - 320],
            [feature |-> "s3_delta", value |-> t.sector_3_time - 300],
            [feature |-> "speed_drop", value |-> 1800 - t.top_speed],
            [feature |-> "gap_normalized", value |-> t.gap_to_previous],
            [feature |-> "temp_delta", value |-> t.air_temperature - 250],
            [feature |-> "wind_delta", value |-> t.wind_speed - 100],
            [feature |-> "lap_in_stint", value |-> t.lap_number % 15],
            [feature |-> "total_sector_time",
             value |-> t.sector_1_time + t.sector_2_time + t.sector_3_time]>>
    IN  SubSeq(features, 1, Len(feature_names))

NoVector == [called |-> FALSE, feature_names |-> <<>>, features |-> <<>>]

\* ------------------------------------------------------ telemetry streams
\* what receive_json yields: a TelemetryInput-shaped dict, a dict that fails
\* validation, JSON that is no dict, text that is no JSON, or the disconnect
Events == {"valid", "invalid", "nondict", "undecodable", "disconnect"}

NewStream ==
    [pc |-> "new", car |-> 0, pending |-> "none", stage |-> "none",
     event |-> "none", sent |-> <<>>, send_failed |-> FALSE, trained |-> FALSE,
     to |-> {}]

NoExchange ==
    [ws |-> "none", car |-> 0, event |-> "none", sent |-> <<>>, open |-> FALSE,
     send_failed |-> FALSE, trained |-> FALSE, to |-> {}]

\* the handler with its "except WebSocketDisconnect" clause only
handler_exit_unhandled(d, websocket, car_number, exc) ==
    IF exc = "WebSocketDisconnect" THEN disconnect(d, websocket, car_number) ELSE d

\* the registry after the handler has left its loop by the exception exc:
\* both except clauses of the outer try call manager.disconnect
handler_exit(d, websocket, car_number, exc) == disconnect(d, websocket, car_number)

\* the handler answering with manager.broadcast_to_car(car_number, response)
response_targets_fanout(websocket, car_number, d) == Range(conns_of(d, car_number))

\* the connections the handler's "await websocket.send_json(...)" writes to
response_targets(websocket, car_number, d) == {websocket}

\* the body of the loop of websocket_telemetry from the received data to its
\* first send_json: <<message kind, "try" or "except": where it is sent from>>
handle_event(ev, m, predict_ok) ==
    IF ev = "invalid" THEN <<"error_invalid", "except">>
    ELSE IF ev = "nondict" THEN <<"error_failed", "except">>
    ELSE IF ~m.exists \/ ~m.is_trained THEN <<"error_not_trained", "try">>
    ELSE IF ~predict_ok THEN <<"error_failed", "except">>
    ELSE <<"prediction", "try">>

\* the handler is back at receive_json, or has returned
finished(ws, st, d) ==
    [ws |-> ws, car |-> st.car, event |-> st.event, sent |-> st.sent,
     open |-> st.pc = "recv" /\ ws \in Range(conns_of(d, st.car)),
     send_failed |-> st.send_failed, trained |-> st.trained, to |-> st.to]

\* ------------------------------------------------------ broadcast channel
\* payloads a broadcast client sends
Payloads == {"yellow_flag", "safety_car"}

\* the WebSocket of the broadcast client
Sender == "C"

\* the broadcast_all call the handler has come back from in the last step:
\* what was sent to whom, and the <<car number, handle>> pairs that were
\* registered from its start to its end
NoDone ==
    [returned |-> FALSE, payload |-> "none", keys |-> <<>>, sent |-> <<>>,
     stable |-> {}, changed |-> FALSE, raised |-> FALSE]

\* websocket_broadcast before it is called
NoCast ==
    [pc |-> "new", payload |-> "none", keys |-> <<>>, sent |-> <<>>, stable |-> {},
     changed |-> FALSE, done |-> NoDone]

registered_pairs(d) == {p \in Keys \X Handles : p[2] \in Range(conns_of(d, p[1]))}

\* the handler after its broadcast_all call has run to the next send_json
\* (tr.pc = "send") or to its end
cast_step(c, tr) ==
    IF tr.pc = "send"
    THEN [c EXCEPT !.pc = "wait", !.done = NoDone,
                   !.sent = Append(@, [to |-> tr.cur, message |-> tr.message])]
    ELSE [NoCast EXCEPT !.pc = IF tr.ret.raised THEN "ended" ELSE "recv",
                        !.done = [returned |-> TRUE, payload |-> c.payload,
                                  keys |-> c.keys, sent |-> c.sent,
                                  stable |-> c.stable,
                                  changed |-> c.changed, raised |-> tr.ret.raised]]

\* what the record of the running broadcast_all call keeps of a change of
\* the dict made by another coroutine
cast_observe(c, d, dn) ==
    IF c.pc # "wait" THEN [c EXCEPT !.done = NoDone]
    ELSE [c EXCEPT !.done = NoDone,
                   !.stable = @ \cap registered_pairs(dn),
                   !.changed = @ \/ dn # d]

\* ------------------------------------------------------------------ actions
InitProgram ==
    /\ active_connections = <<>>
    /\ task = IdleTask
    /\ server = "boot"
    /\ routes_model = NoModel
    /\ routes_explainer = NoExplainer
    /\ ws_model = routes_model
    /\ ws_explainer = routes_explainer
    /\ disk = NoDisk
    /\ trainings = 0
    /\ fit_done = FALSE
    /\ stream = [ws \in Handles |-> NewStream]
    /\ exchange = NoExchange
    /\ train_result = NoTrain
    /\ http = NoHttp
    /\ gm = NoModel
    /\ call = NoCall
    /\ cast = NoCast

Init ==
    /\ InitProgram
    /\ telemetry = Example
    /\ columns = RawColumns
    /\ verdict = NoVerdict
    /\ vector = NoVector

\* any TelemetryInput of the input sets, any training DataFrame
InitPure ==
    /\ InitProgram
    /\ telemetry \in TelemetryInputs
    /\ columns \in SUBSET RawColumns
    /\ verdict = NoVerdict
    /\ vector = NoVector

\* await manager.connect(websocket, car_number), once accept() has returned
ConnectCall(websocket, car_number) ==
    /\ UNCHANGED cast
    /\ UNCHANGED pure_vars
    /\ UNCHANGED obj_vars
    /\ UNCHANGED app_vars
    /\ Len(conns_of(active_connections, car_number)) < MaxConn
    /\ active_connections' = connect(active_connections, websocket, car_number)
    /\ task' = observe(task, active_connections, active_connections')

\* manager.disconnect(websocket, car_number)
DisconnectCall(websocket, car_number) ==
    /\ UNCHANGED cast
    /\ UNCHANGED pure_vars
    /\ UNCHANGED obj_vars
    /\ UNCHANGED app_vars
    /\ active_connections' = disconnect(active_connections, websocket, car_number)
    /\ task' = observe(task, active_connections, active_connections')

\* await manager.broadcast_to_car(car_number, message), up to the first send_json
StartBroadcastToCar(car_number, message) ==
    /\ UNCHANGED cast
    /\ UNCHANGED pure_vars
    /\ UNCHANGED obj_vars
    /\ UNCHANGED app_vars
    /\ task.pc = "idle"
    /\ task' = next_call([IdleTask EXCEPT !.kind = "car", !.message = message,
                                          !.keys = <<car_number>>],
                         active_connections, 1)
    /\ UNCHANGED active_connections

\* await manager.broadcast_all(message), up to the first send_json
StartBroadcastAll(message) ==
    /\ UNCHANGED cast
    /\ UNCHANGED pure_vars
    /\ UNCHANGED obj_vars
    /\ UNCHANGED app_vars
    /\ task.pc = "idle"
    /\ task' = next_call([IdleTask EXCEPT !.kind = "all", !.message = message,
                                          !.keys = dict_keys(active_connections)],
                         active_connections, 1)
    /\ UNCHANGED active_connections

\* connection.send_json(message) returns (ok) or raises (~ok)
SendReturn(ok) ==
    /\ UNCHANGED cast
    /\ UNCHANGED pure_vars
    /\ UNCHANGED obj_vars
    /\ UNCHANGED app_vars
    /\ task.pc = "send"
    /\ LET r == resume(task, active_connections, ok)
       IN  /\ active_connections' = r[2]
           /\ task' = r[1]

NextHub ==
    \/ \E ws \in Handles, k \in Keys : ConnectCall(ws, k)
    \/ \E ws \in Handles, k \in Keys : DisconnectCall(ws, k)
    \/ \E k \in Keys, m \in Messages : StartBroadcastToCar(k, m)
    \/ \E m \in Messages : StartBroadcastAll(m)
    \/ \E ok \in BOOLEAN : SendReturn(ok)

SpecHub == Init /\ [][NextHub]_vars

\* ------------------------------------------------- application actions
\* lifespan startup: routes.initialize_model()
Startup(ready) ==
    /\ UNCHANGED cast
    /\ UNCHANGED pure_vars
    /\ UNCHANGED obj_vars
    /\ server = "boot"
    /\ LET r == initialize_model(disk, ready)
       IN  /\ routes_model' = r[1]
           /\ routes_explainer' = r[2]
           /\ fit_done' = r[3]
    /\ server' = "up"
    /\ exchange' = NoExchange /\ train_result' = NoTrain /\ http' = NoHttp
    /\ UNCHANGED <<hub_vars, ws_model, ws_explainer, disk, trainings, stream>>

\* the process ends and a new one imports the modules again
Restart ==
    /\ UNCHANGED pure_vars
    /\ UNCHANGED obj_vars
    /\ server = "up"
    /\ server' = "boot"
    /\ routes_model' = NoModel
    /\ routes_explainer' = NoExplainer
    /\ ws_model' = routes_model'
    /\ ws_explainer' = routes_explainer'
    /\ fit_done' = FALSE
    /\ stream' = [ws \in Handles |-> NewStream]
    /\ active_connections' = <<>>
    /\ exchange' = NoExchange /\ train_result' = NoTrain /\ http' = NoHttp
    /\ task' = IdleTask
    /\ cast' = NoCast
    /\ UNCHANGED <<disk, trainings>>

\* POST /api/v1/train: train_model, which raises at fail_at ("none": it returns)
TrainRequest(fail_at, ready) ==
    /\ UNCHANGED cast
    /\ UNCHANGED pure_vars
    /\ UNCHANGED obj_vars
    /\ server = "up"
    /\ IF fail_at \in {"data", "features"}
       THEN UNCHANGED trainings
       ELSE /\ trainings < MaxTrain
            /\ trainings' = trainings + 1
    /\ LET r == train_model(routes_model, routes_explainer, disk, trainings + 1,
                            fail_at, ready)
       IN  /\ routes_model' = r[1]
           /\ routes_explainer' = r[2]
           /\ disk' = r[3]
    /\ fit_done' = (fit_done \/ fail_at = "none")
    /\ train_result' = [status |-> IF fail_at = "none" THEN "success" ELSE "failed",
                        fail_at |-> fail_at, before |-> routes_model,
                        before_explainer |-> routes_explainer]
    /\ exchange' = NoExchange /\ http' = NoHttp
    /\ UNCHANGED <<hub_vars, server, ws_model, ws_explainer, stream>>

\* POST /api/v1/predict: predict_grip
PredictRequest(predict_ok, explain_ok) ==
    /\ UNCHANGED cast
    /\ UNCHANGED pure_vars
    /\ UNCHANGED obj_vars
    /\ server = "up"
    /\ http' = predict_grip(routes_model, routes_explainer, predict_ok, explain_ok)
    /\ exchange' = NoExchange /\ train_result' = NoTrain
    /\ UNCHANGED <<hub_vars, server, routes_model, routes_explainer, ws_model,
                   ws_explainer, disk, trainings, fit_done, stream>>

\* websocket_telemetry up to its first receive_json: manager.connect
StreamConnect(ws, car_number, accepted) ==
    /\ UNCHANGED pure_vars
    /\ UNCHANGED obj_vars
    /\ server = "up"
    /\ stream[ws].pc = "new"
    /\ IF accepted
       THEN /\ active_connections' = connect(active_connections, ws, car_number)
            /\ stream' = [stream EXCEPT ![ws] = [NewStream EXCEPT !.pc = "recv",
                                                                  !.car = car_number]]
       ELSE /\ stream' = [stream EXCEPT ![ws] = [NewStream EXCEPT !.pc = "ended",
                                                                  !.car = car_number]]
            /\ UNCHANGED active_connections
    /\ exchange' = NoExchange /\ train_result' = NoTrain /\ http' = NoHttp
    /\ task' = observe(task, active_connections, active_connections')
    /\ cast' = cast_observe(cast, active_connections, active_connections')
    /\ UNCHANGED <<server, routes_model, routes_explainer, ws_model,
                   ws_explainer, disk, trainings, fit_done>>

\* receive_json returns or raises, and the handler runs to its next await
StreamReceive(ws, ev, predict_ok) ==
    /\ UNCHANGED pure_vars
    /\ UNCHANGED obj_vars
    /\ server = "up"
    /\ stream[ws].pc = "recv"
    /\ LET st == [stream[ws] EXCEPT !.event = ev, !.sent = <<>>,
                                    !.send_failed = FALSE, !.trained = fit_done,
                                    !.to = {}]
       IN  IF ev \in {"undecodable", "disconnect"}
           THEN /\ active_connections' =
                     handler_exit(active_connections, ws, st.car,
                                  IF ev = "disconnect" THEN "WebSocketDisconnect"
                                  ELSE "Exception")
                /\ stream' = [stream EXCEPT ![ws] =
                                [NewStream EXCEPT !.pc = "ended", !.car = st.car]]
                /\ exchange' = finished(ws, [st EXCEPT !.pc = "ended"],
                                        active_connections')
           ELSE LET first == handle_event(ev, ws_model, predict_ok)
                IN  /\ stream' = [stream EXCEPT ![ws] =
                                    [st EXCEPT !.pc = "send", !.pending = first[1],
                                               !.stage = first[2],
                                               !.to = response_targets(
                                                        ws, st.car, active_connections)]]
                    /\ exchange' = NoExchange
                    /\ UNCHANGED active_connections
    /\ train_result' = NoTrain /\ http' = NoHttp
    /\ task' = observe(task, active_connections, active_connections')
    /\ cast' = cast_observe(cast, active_connections, active_connections')
    /\ UNCHANGED <<server, routes_model, routes_explainer, ws_model,
                   ws_explainer, disk, trainings, fit_done>>

\* websocket.send_json of the handler returns (ok) or raises (~ok)
StreamSendReturn(ws, ok) ==
    /\ UNCHANGED pure_vars
    /\ UNCHANGED obj_vars
    /\ server = "up"
    /\ stream[ws].pc = "send"
    /\ LET st == stream[ws]
       IN  IF ok
           THEN LET st1 == [st EXCEPT !.pc = "recv", !.sent = Append(@, st.pending)]
                IN  /\ stream' = [stream EXCEPT ![ws] =
                                    [NewStream EXCEPT !.pc = "recv", !.car = st.car]]
                    /\ exchange' = finished(ws, st1, active_connections)
                    /\ UNCHANGED active_connections
           ELSE IF st.stage = "try"
           THEN /\ stream' = [stream EXCEPT ![ws] =
                                [st EXCEPT !.pending = "error_failed",
                                           !.stage = "except", !.send_failed = TRUE,
                                           !.to = @ \cup response_targets(
                                                           ws, st.car, active_connections)]]
                /\ exchange' = NoExchange
                /\ UNCHANGED active_connections
           ELSE /\ active_connections' =
                     handler_exit(active_connections, ws, st.car, "Exception")
                /\ stream' = [stream EXCEPT ![ws] =
                                [NewStream EXCEPT !.pc = "ended", !.car = st.car]]
                /\ exchange' = finished(ws, [st EXCEPT !.pc = "ended",
                                                       !.send_failed = TRUE],
                                        active_connections')
    /\ train_result' = NoTrain /\ http' = NoHttp
    /\ task' = observe(task, active_connections, active_connections')
    /\ cast' = cast_observe(cast, active_connections, active_connections')
    /\ UNCHANGED <<server, routes_model, routes_explainer, ws_model,
                   ws_explainer, disk, trainings, fit_done>>

Next ==
    \/ \E ready \in BOOLEAN : Startup(ready)
    \/ Restart
    \/ \E f \in FailPoints, ready \in BOOLEAN : TrainRequest(f, ready)
    \/ \E predict_ok \in BOOLEAN, explain_ok \in BOOLEAN :
          PredictRequest(predict_ok, explain_ok)
    \/ \E ws \in Handles, k \in Keys, accepted \in BOOLEAN : StreamConnect(ws, k, accepted)
    \/ \E ws \in Handles, ev \in Events, predict_ok \in BOOLEAN :
          StreamReceive(ws, ev, predict_ok)
    \/ \E ws \in Handles, ok \in BOOLEAN : StreamSendReturn(ws, ok)

Spec == Init /\ [][Next]_vars

\* ------------------------------------------------ broadcast endpoint
\* websocket_broadcast up to its first receive_json: accept, no manager.connect
CastConnect ==
    /\ server = "up"
    /\ cast.pc = "new"
    /\ cast' = [NoCast EXCEPT !.pc = "recv"]
    /\ exchange' = NoExchange /\ train_result' = NoTrain /\ http' = NoHttp
    /\ UNCHANGED <<hub_vars, server, routes_model, routes_explainer, ws_model,
                   ws_explainer, disk, trainings, fit_done, stream, obj_vars,
                   pure_vars>>

\* receive_json returns a payload: await manager.broadcast_all(data), up to
\* its first send_json
CastReceive(payload) ==
    /\ server = "up"
    /\ cast.pc = "recv"
    /\ task.pc = "idle"
    /\ task' = next_call([IdleTask EXCEPT !.kind = "all", !.message = payload,
                                          !.keys = dict_keys(active_connections)],
                         active_connections, 1)
    /\ cast' = cast_step([cast EXCEPT !.payload = payload, !.sent = <<>>,
                                      !.keys = dict_keys(active_connections),
                                      !.stable = registered_pairs(active_connections),
                                      !.changed = FALSE],
                         task')
    /\ exchange' = NoExchange /\ train_result' = NoTrain /\ http' = NoHttp
    /\ UNCHANGED <<active_connections, server, routes_model, routes_explainer,
                   ws_model, ws_explainer, disk, trainings, fit_done, stream,
                   obj_vars, pure_vars>>

\* a send_json of the broadcast_all call returns (ok) or raises (~ok)
CastSendReturn(ok) ==
    /\ cast.pc = "wait"
    /\ task.pc = "send"
    /\ LET r == resume(task, active_connections, ok)
       IN  /\ active_connections' = r[2]
           /\ task' = r[1]
           /\ cast' = cast_step(cast, r[1])
    /\ exchange' = NoExchange /\ train_result' = NoTrain /\ http' = NoHttp
    /\ UNCHANGED <<server, routes_model, routes_explainer, ws_model, ws_explainer,
                   disk, trainings, fit_done, stream, obj_vars, pure_vars>>

\* receive_json raises (the client is gone, or sent no JSON): the handler returns
CastDisconnect ==
    /\ cast.pc = "recv"
    /\ cast' = [NoCast EXCEPT !.pc = "ended"]
    /\ exchange' = NoExchange /\ train_result' = NoTrain /\ http' = NoHttp
    /\ UNCHANGED <<hub_vars, server, routes_model, routes_explainer, ws_model,
                   ws_explainer, disk, trainings, fit_done, stream, obj_vars,
                   pure_vars>>

NextCast ==
    \/ \E ready \in BOOLEAN : Startup(ready)
    \/ \E ws \in Handles, k \in Keys, accepted \in BOOLEAN : StreamConnect(ws, k, accepted)
    \/ \E ws \in Handles, ev \in Events, predict_ok \in BOOLEAN :
          StreamReceive(ws, ev, predict_ok)
    \/ \E ws \in Handles, ok \in BOOLEAN : StreamSendReturn(ws, ok)
    \/ CastConnect
    \/ \E payload \in Payloads : CastReceive(payload)
    \/ \E ok \in BOOLEAN : CastSendReturn(ok)
    \/ CastDisconnect

SpecCast == Init /\ [][NextCast]_vars

\* ------------------------------------------- calls on a GripLossModel
\* GripLossModel()
NewModel ==
    /\ UNCHANGED cast
    /\ UNCHANGED pure_vars
    /\ gm' = GripLossModel
    /\ call' = [op |-> "new", outcome |-> "ok", before |-> gm]
    /\ UNCHANGED <<hub_vars, app_vars>>

\* gm.train(X, y, feature_names), which raises at fail_at ("none": it returns)
TrainCall(fail_at) ==
    /\ UNCHANGED cast
    /\ UNCHANGED pure_vars
    /\ gm.exists
    /\ trainings < MaxTrain
    /\ trainings' = trainings + 1
    /\ LET r == train(gm, trainings + 1, fail_at, disk)
       IN  /\ gm' = r[1]
           /\ disk' = r[2]
    /\ call' = [op |-> "train", outcome |-> IF fail_at = "none" THEN "ok" ELSE fail_at,
                before |-> gm]
    /\ UNCHANGED <<hub_vars, server, routes_model, routes_explainer, ws_model,
                   ws_explainer, fit_done, stream, exchange, train_result, http>>

\* gm.load()
LoadCall ==
    /\ UNCHANGED cast
    /\ UNCHANGED pure_vars
    /\ gm.exists
    /\ LET r == load(gm, disk)
       IN  /\ gm' = r[1]
           /\ call' = [op |-> "load", outcome |-> r[2], before |-> gm]
    /\ UNCHANGED <<hub_vars, app_vars>>

\* gm.predict(telemetry)
PredictCall(predict_ok) ==
    /\ UNCHANGED cast
    /\ UNCHANGED pure_vars
    /\ gm.exists
    /\ call' = [op |-> "predict", outcome |-> predict(gm, predict_ok), before |-> gm]
    /\ UNCHANGED <<hub_vars, app_vars, gm>>

NextModel ==
    \/ NewModel
    \/ \E f \in TrainFailPoints : TrainCall(f)
    \/ LoadCall
    \/ \E predict_ok \in BOOLEAN : PredictCall(predict_ok)

SpecModel == Init /\ [][NextModel]_vars

\* ------------------------------------- calls of the pure functions
\* model.classify_threat(telemetry, grip_loss)
ClassifyThreatCall(grip_loss) ==
    /\ UNCHANGED cast
    /\ verdict' = [called |-> TRUE, grip_loss |-> grip_loss,
                   threat |-> classify_threat(telemetry, grip_loss)]
    /\ vector' = NoVector
    /\ UNCHANGED <<hub_vars, app_vars, obj_vars, telemetry, columns>>

\* a model trained on the features of the DataFrame transforms the telemetry
FeaturesCall ==
    /\ UNCHANGED cast
    /\ LET names == available_features(columns)
       IN  vector' = [called |-> TRUE, feature_names |-> names,
                      features |-> telemetry_to_features(telemetry, names)]
    /\ verdict' = NoVerdict
    /\ UNCHANGED <<hub_vars, app_vars, obj_vars, telemetry, columns>>

NextPure ==
    \/ \E g \in GripLosses : ClassifyThreatCall(g)
    \/ FeaturesCall

SpecPure == InitPure /\ [][NextPure]_vars

\* ------------------------------------------------ claims on the registry
\* subscribers the running call has still to send to: the rest of the list it
\* iterates and the lists of the later car numbers of its snapshot
waiting ==
    LET l == iter_list(task, active_connections)
    IN  {l[i] : i \in (task.idx + 1)..Len(l)}
        \cup UNION {Range(conns_of(active_connections, task.keys[i])) :
                      i \in (task.ki + 1)..Len(task.keys)}

\* C3: when a broadcast_to_car call in which a send failed returns, every
\* subscriber that was registered under the car number during the whole call
\* has been sent the message, no failed subscriber is registered under the car
\* number any more, and the call has not raised.
C3_FailureIsolated ==
    (task.ret.returned /\ task.ret.failed # <<>>) =>
        /\ task.ret.always \subseteq Range(task.ret.attempted)
        /\ Range(task.ret.failed) \cap task.ret.registered = {}
        /\ ~task.ret.raised

\* C4: when a broadcast_to_car call returns, every subscriber that was
\* registered under the car number during the whole call has been sent the
\* message, whatever connects and disconnects happened while it was suspended.
C4_AllStableSubscribersSent ==
    task.ret.returned => task.ret.always \subseteq Range(task.ret.attempted)

\* C5: a broadcast_to_car call during which no other coroutine changed the
\* list of its car number sends to exactly the subscribers registered under
\* it (both A and B after connect(A), connect(B); B and not A after
\* disconnect(A)), and disconnect of a handle registered once under a car
\* number leaves exactly the other handles registered, in their order.
C5_QuietDelivery ==
    (task.ret.returned /\ task.ret.quiet) =>
        Range(task.ret.attempted) = task.ret.always

C5_DisconnectStep ==
    \A ws \in Handles, k \in Keys :
        (DisconnectCall(ws, k) /\ Count(conns_of(active_connections, k), ws) = 1) =>
            conns_of(active_connections', k) =
                SelectSeq(conns_of(active_connections, k), LAMBDA h : h # ws)

\* C5: both parts, in every state and at every step
C5_Sequential == [](C5_QuietDelivery) /\ [][C5_DisconnectStep]_vars

\* C5: an undisturbed call has sent to A and to B, both registered under its car

C5_Witness ==
    /\ task.ret.returned /\ task.ret.quiet /\ task.ret.failed = <<>>
    /\ task.ret.attempted = <<"A", "B">>
    /\ task.ret.registered = {"A", "B"}

\* C6: a handle is registered at most once under a car number, however often
\* it is connected under it.
C6_ConnectIdempotent ==
    \A k \in Keys, ws \in Handles : Count(conns_of(active_connections, k), ws) <= 1

\* C7: no car number of the registry maps to an empty connection list, and no
\* car number has two entries.
C7_NoEmptyEntry ==
    /\ \A i \in 1..Len(active_connections) : active_connections[i].conns # <<>>
    /\ \A i, j \in 1..Len(active_connections) :
          active_connections[i].car = active_connections[j].car => i = j

\* C7: the cleanup of a call has removed the last handle of its car number
C7_Witness ==
    /\ task.ret.returned /\ task.ret.failed # <<>>
    /\ ~dict_has(active_connections, task.ret.car)

\* C8: within one broadcast_to_car call no handle is sent the message twice.
C8_AtMostOneAttempt ==
    \A ws \in Handles :
        /\ Count(task.attempted, ws) <= 1
        /\ Count(task.ret.attempted, ws) <= 1

\* C9: while a send is pending and the call has other subscribers still to
\* send to, a send to one of them can start before the pending send returns.
C9_NoStall ==
    (task.pc = "send" /\ waiting # {}) =>
        ENABLED (NextHub /\ task'.nret = task.nret /\ task'.attempted # task.attempted)

\* ------------------------------------------- claims on the application
ErrorKinds == {"error_not_trained", "error_invalid", "error_failed"}

\* C1: a valid telemetry event received on a stream after a load or a training
\* run has completed successfully is answered with exactly one prediction
\* response (as long as the sends to the client succeed).
C1_PredictionAfterTraining ==
    (exchange.event = "valid" /\ exchange.trained /\ ~exchange.send_failed) =>
        exchange.sent = <<"prediction">>

\* C2: a malformed event on a stream (a dict that fails validation, JSON that
\* is no dict, text that cannot be decoded) is answered with exactly one error
\* message, and the handler stays registered and goes on to receive the next
\* event (as long as the sends to the client succeed).
C2_MalformedRecovered ==
    (exchange.event \in {"invalid", "nondict", "undecodable"} /\ ~exchange.send_failed) =>
        /\ Len(exchange.sent) = 1
        /\ \A i \in 1..Len(exchange.sent) : exchange.sent[i] \in ErrorKinds
        /\ exchange.open

\* C10: after a train_model call that failed during fit, evaluation or
\* persistence while a trained model was serving, the serving model is the
\* model object of before the call, unchanged and trained.
C10_FailedTrainingKeepsArtifact ==
    (/\ train_result.status = "failed"
     /\ train_result.fail_at \in {"fit", "evaluate", "save_model", "save_scaler",
                                  "save_features"}
     /\ train_result.before.is_trained) =>
        /\ routes_model = train_result.before
        /\ routes_model.is_trained

\* C11: after a train_model call that failed because create_feature_matrix
\* raised (no features available), routes.model and routes.explainer are the
\* objects of before the call, unchanged.
C11_NoFeaturesKeepsServing ==
    (train_result.status = "failed" /\ train_result.fail_at = "features") =>
        /\ routes_model = train_result.before
        /\ routes_explainer = train_result.before_explainer

\* C11: the call failed at create_feature_matrix while a trained model and its
\* explainer were serving
C11_Witness ==
    /\ train_result.status = "failed" /\ train_result.fail_at = "features"
    /\ train_result.before.is_trained /\ train_result.before_explainer.exists
    /\ routes_model.is_trained /\ routes_explainer.exists

\* C12: whenever the serving model is trained, its regressor, its scaler and
\* its feature-name list were made by the same training run: no sequence of
\* train and load calls, failing ones included, exposes a mix of parts.
C12_ArtifactFromOneCall ==
    routes_model.is_trained =>
        /\ routes_model.model = routes_model.scaler
        /\ routes_model.scaler = routes_model.feature_names

\* C13: a load call that raises because one of model.pkl, scaler.pkl and
\* features.pkl is missing leaves model, scaler, feature_names and is_trained
\* of the object as they were before the call.
C13_LoadFailsWholesale ==
    (call.op = "load" /\ call.outcome # "ok") => gm = call.before

\* C14: no prediction is produced before a load or a training run has
\* completed successfully: predict_grip answers no 200, no stream is sent a
\* prediction, and a valid event on a stream is answered with the
\* model-not-trained error while the stream stays open.
C14_NoPredictionBeforeFit ==
    /\ http.code = "200" => fit_done
    /\ \A i \in 1..Len(exchange.sent) :
          exchange.sent[i] = "prediction" => exchange.trained
    /\ (exchange.event = "valid" /\ ~exchange.trained /\ ~exchange.send_failed) =>
          (exchange.sent = <<"error_not_trained">> /\ exchange.open)

\* C18: a predict_grip call on a trained model whose prediction succeeds is
\* answered 200 with the prediction of the serving regressor and an empty
\* shap_values list when there is no explainer, when its TreeExplainer could
\* not be constructed, or when the SHAP computation fails.
C18_ExplainerBestEffort ==
    (/\ http.code # "none"
     /\ routes_model.exists /\ routes_model.is_trained /\ http.predict_ok
     /\ (~routes_explainer.exists \/ ~routes_explainer.ready \/ ~http.explain_ok)) =>
        /\ http.code = "200"
        /\ http.prediction = routes_model.model
        /\ http.shap = "empty"

\* C18: the SHAP computation of a constructed explainer failed during a call
\* that was answered 200
C18_Witness ==
    /\ routes_explainer.exists /\ routes_explainer.ready
    /\ http.predict_ok /\ ~http.explain_ok
    /\ http.code = "200" /\ http.shap = "empty"

\* ------------------------------------- claims on the pure functions
dirty_air_rule == telemetry.gap_to_previous < DIRTY_AIR_GAP_THRESHOLD
                    /\ telemetry.top_speed < DIRTY_AIR_SPEED_THRESHOLD

tire_fade_rule ==
    \/ telemetry.sector_1_time - telemetry.sector_3_time > TIRE_FADE_SECTOR_DIFF_THRESHOLD
    \/ telemetry.sector_3_time - telemetry.sector_1_time > TIRE_FADE_SECTOR_DIFF_THRESHOLD

weather_shift_rule == verdict.grip_loss > WEATHER_SHIFT_GRIP_THRESHOLD

\* C15: classify_threat returns one of dirty_air, tire_fade, weather_shift and
\* none for every record and grip loss; it returns dirty_air whenever the
\* dirty-air rule holds, whatever the other rules say, tire_fade whenever the
\* tire-fade rule holds and the dirty-air rule does not, weather_shift when
\* only the weather-shift rule holds, and none when no rule holds.
C15_FirstMatchWins ==
    verdict.called =>
        /\ verdict.threat \in {"dirty_air", "tire_fade", "weather_shift", "none"}
        /\ dirty_air_rule => verdict.threat = "dirty_air"
        /\ (~dirty_air_rule /\ tire_fade_rule) => verdict.threat = "tire_fade"
        /\ (~dirty_air_rule /\ ~tire_fade_rule /\ weather_shift_rule) =>
              verdict.threat = "weather_shift"
        /\ (~dirty_air_rule /\ ~tire_fade_rule /\ ~weather_shift_rule) =>
              verdict.threat = "none"

\* C15: a record for which all three rules hold was classified dirty_air
C15_Witness ==
    /\ verdict.called /\ dirty_air_rule /\ tire_fade_rule /\ weather_shift_rule
    /\ verdict.threat = "dirty_air"

\* C16 as stated: for the example record (sector times 28.5, 32.1, 29.8, top
\* speed 182.5, gap 2.3) and a predicted grip loss of 1.2, classify_threat
\* returns none.
C16_ExampleIsNone ==
    (verdict.called /\ telemetry = Example /\ verdict.grip_loss = 12) =>
        verdict.threat = "none"

\* C16: for the example record and a predicted grip loss of 1.2,
\* classify_threat returns tire_fade: sector 1 and sector 3 are 1.3 s apart,
\* more than the 0.3 s threshold.
C16_ExampleIsTireFade ==
    (verdict.called /\ telemetry = Example /\ verdict.grip_loss = 12) =>
        verdict.threat = "tire_fade"

\* C16: the example record has been classified with a grip loss of 1.2
C16_Witness ==
    /\ verdict.called /\ telemetry = Example /\ verdict.grip_loss = 12
    /\ ~dirty_air_rule /\ tire_fade_rule /\ ~weather_shift_rule
    /\ verdict.threat = "tire_fade"

\* C17: for every set of feature columns training finds, the inference
\* transform emits as many values as there are stored feature names, and its
\* i-th value is the feature the i-th stored name names.
C17_FeaturesAligned ==
    vector.called =>
        /\ Len(vector.features) = Len(vector.feature_names)
        /\ \A i \in 1..Len(vector.features) :
              vector.features[i].feature = vector.feature_names[i]

\* ---------------------------------- claims on the broadcast channel
\* handles a broadcast_all call has sent to
sent_to(sent) == {sent[i].to : i \in 1..Len(sent)}

\* C19: when the broadcast_all call made for a payload returns, every handle
\* that was registered under a car number from the start of the call to its
\* end has been sent the payload, every message sent is the payload itself,
\* and the broadcast client is neither registered nor sent anything.
C19_FanOutToAll ==
    cast.done.returned =>
        /\ \A p \in cast.done.stable : p[2] \in sent_to(cast.done.sent)
        /\ \A i \in 1..Len(cast.done.sent) :
              cast.done.sent[i].message = cast.done.payload
        /\ Sender \notin sent_to(cast.done.sent)
        /\ \A k \in Keys : Sender \notin Range(conns_of(active_connections, k))

\* C20: a broadcast_all call does not raise, whatever connects and
\* disconnects (removing or adding car numbers) happen while it is suspended
\* on a send, and it sends to no handle twice.
C20_SnapshotTolerant ==
    /\ ~cast.done.raised
    /\ \A ws \in Handles :
          /\ Cardinality({i \in 1..Len(cast.sent) : cast.sent[i].to = ws}) <= 1
          /\ Cardinality({i \in 1..Len(cast.done.sent) : cast.done.sent[i].to = ws}) <= 1

\* C20: a call has returned after another coroutine removed the second car
\* number of its key snapshot from the registry while it was suspended on its
\* send under the first
C20_Witness ==
    /\ cast.done.returned /\ cast.done.changed /\ ~cast.done.raised
    /\ Len(cast.done.keys) = 2 /\ Len(cast.done.sent) = 1
    /\ ~dict_has(active_connections, cast.done.keys[2])

\* ------------------------------------------- claims on the streams
\* C21: every message a telemetry handler sends in answer to an event
\* (prediction or error) goes to the WebSocket the event arrived on and to no
\* other connection, registered under the same car number or not.
C21_AnswerToOriginOnly ==
    /\ \A ws \in Handles : stream[ws].pc = "send" => stream[ws].to = {ws}
    /\ exchange.sent # <<>> => exchange.to = {exchange.ws}

\* C21: an event was answered on its stream while another handle was
\* registered under the same car number
C21_Witness ==
    /\ exchange.sent # <<>> /\ exchange.to = {exchange.ws}
    /\ \E other \in Handles \ {exchange.ws} :
          other \in Range(conns_of(active_connections, exchange.car))

\* C22: whenever predict_grip answers with a prediction and attributions, and
\* whenever a trained model and a working explainer are serving together,
\* the explainer wraps the regressor of the serving model.
C22_ExplainerOfServingModel ==
    /\ (http.code = "200" /\ http.shap = "attributions") =>
          routes_explainer.model = http.prediction
    /\ (routes_model.is_trained /\ routes_explainer.exists /\ routes_explainer.ready) =>
          routes_explainer.model = routes_model.model

\* C23: a telemetry handler that has returned, whatever ended it (the
\* client's disconnect, a receive error, a send error, a refused accept), has
\* no handle left in the registry, and every handle in the registry belongs
\* to a running handler of the car number it is registered under.
C23_EndedIsUnregistered ==
    /\ \A ws \in Handles : stream[ws].pc = "ended" =>
          \A k \in Keys : ws \notin Range(conns_of(active_connections, k))
    /\ \A ws \in Handles, k \in Keys :
          ws \in Range(conns_of(active_connections, k)) =>
              (stream[ws].pc \in {"recv", "send"} /\ stream[ws].car = k)

\* C23: a handler has returned after a failed send while another handler of
\* the same car number is still registered
C23_Witness ==
    /\ exchange.ws \in Handles /\ exchange.send_failed
    /\ stream[exchange.ws].pc = "ended"
    /\ ~exchange.open
    /\ \E other \in Handles \ {exchange.ws} :
          other \in Range(conns_of(active_connections, exchange.car))

====
